---- MODULE Spec2Model ----
(***************************************************************************)
(* A model of src/src/main.rs: the ticket puzzle solver.  The input text   *)
(* is a sequence of lines, a line a sequence of one-character strings.     *)
(* main reads the rules, the personal record and the candidate batch from  *)
(* one shared line iterator, sums the values no rule accepts, filters the  *)
(* batch, computes the positions each rule's ranges admit, resolves them   *)
(* by sorted elimination and multiplies the personal record's values at    *)
(* the positions whose rule name starts with "departure".                  *)
(***************************************************************************)
EXTENDS Integers, Sequences, FiniteSets, TLC

VARIABLES
    input,                \* the text behind the iterator (include_str!), fixed
    lines,                \* the lines the shared iterator has not yielded yet
    pc,                   \* the statement of main that runs next
    panic,                \* "" or the reason the process aborted with
    rules,                \* main's rules
    my_passport,          \* main's my_passport
    near_passports,       \* main's near_passports
    invalid_fields,       \* main's invalid_fields
    answer_1,             \* the sum printed as answer 1
    valid_passports,      \* main's valid_passports
    valid_positions,      \* main's valid_positions
    all_positions,        \* determine_field_positions: the sorted lists
    i,                    \* determine_field_positions: the enumerate() index
    taken,                \* determine_field_positions: the taken set
    determined_positions, \* determine_field_positions: the pairs pushed so far
    part_2                \* the product printed as part 2

vars == <<input, lines, pc, panic, rules, my_passport, near_passports,
          invalid_fields, answer_1, valid_passports, valid_positions,
          all_positions, i, taken, determined_positions, part_2>>

(***************************************************************************)
(* Bounds of the model.                                                    *)
(***************************************************************************)
MaxRules == 3        \* rules of a solver input
MaxNear == 2         \* candidate records of a solver input
MaxVal == 2          \* field values of a solver input are 0..MaxVal
MaxRuleLines == 2    \* rule-section lines of a text input
MaxNearLines == 2    \* candidate-section lines of a text input

(***************************************************************************)
(* Characters.                                                             *)
(***************************************************************************)
Digits == <<"0", "1", "2", "3", "4", "5", "6", "7", "8", "9">>

Digit == {Digits[k] : k \in 1..10}

Letters == {"a", "b", "c", "d", "e", "i", "k", "n", "o", "p", "r", "s", "t", "u",
            "w", "x", "y"}

\* [\w\s]: word characters and white space
WordOrSpace == Letters \cup Digit \cup {"_", " "}

DigitVal(c) == (CHOOSE k \in 1..10 : Digits[k] = c) - 1

\* i64::MAX, 9223372036854775807, as its decimal digits
I64_MAX == <<"9", "2", "2", "3", "3", "7", "2", "0", "3", "6", "8", "5", "4",
             "7", "7", "5", "8", "0", "7">>

RECURSIVE StripZeros(_)
StripZeros(ds) ==
    IF Len(ds) > 1 /\ Head(ds) = "0" THEN StripZeros(Tail(ds)) ELSE ds

RECURSIVE LexLeq(_, _)
\* a <= b for digit strings of one length
LexLeq(a, b) ==
    IF a = <<>> THEN TRUE
    ELSE IF DigitVal(Head(a)) < DigitVal(Head(b)) THEN TRUE
    ELSE IF DigitVal(Head(a)) > DigitVal(Head(b)) THEN FALSE
    ELSE LexLeq(Tail(a), Tail(b))

\* str::parse::<i64> of a non-empty digit string is Ok iff the number fits
ParseOk(ds) ==
    LET s == StripZeros(ds)
    IN  \/ Len(s) < Len(I64_MAX)
        \/ Len(s) = Len(I64_MAX) /\ LexLeq(s, I64_MAX)

RECURSIVE ParseVal(_, _)
ParseVal(ds, acc) ==
    IF ds = <<>> THEN acc ELSE ParseVal(Tail(ds), 10 * acc + DigitVal(Head(ds)))

\* the value of parse::<i64>().unwrap() when ParseOk
ParseI64(ds) == ParseVal(ds, 0)

(***************************************************************************)
(* The compiled patterns.                                                  *)
(***************************************************************************)
RECURSIVE RunStart(_, _, _)
\* the first index of the longest run of characters of C that ends at
\* index e of s; e + 1 when there is none
RunStart(s, e, C) ==
    IF e >= 1 /\ e <= Len(s) /\ s[e] \in C THEN RunStart(s, e - 1, C) ELSE e + 1

\* the literal lit ends at index e of s
LitEndsAt(s, e, lit) ==
    /\ e >= Len(lit)
    /\ e <= Len(s)
    /\ SubSeq(s, e - Len(lit) + 1, e) = lit

\* RULE_REGEX.captures(line): the pattern is anchored at the end only, every
\* number is delimited by a character that is no digit, and the leftmost
\* match takes the longest run of [\w\s] before ": " as the name.
RULE_REGEX(line) ==
    LET e4 == Len(line)
        b4 == RunStart(line, e4, Digit)
        e3 == b4 - 2
        b3 == RunStart(line, e3, Digit)
        e2 == b3 - 5
        b2 == RunStart(line, e2, Digit)
        e1 == b2 - 2
        b1 == RunStart(line, e1, Digit)
        en == b1 - 3
        bn == RunStart(line, en, WordOrSpace)
    IN  IF /\ b4 <= e4 /\ LitEndsAt(line, b4 - 1, <<"-">>)
           /\ b3 <= e3 /\ LitEndsAt(line, b3 - 1, <<" ", "o", "r", " ">>)
           /\ b2 <= e2 /\ LitEndsAt(line, b2 - 1, <<"-">>)
           /\ b1 <= e1 /\ LitEndsAt(line, b1 - 1, <<":", " ">>)
           /\ bn <= en
        THEN [matched |-> TRUE,
              name |-> SubSeq(line, bn, en),
              range_1_low |-> SubSeq(line, b1, e1),
              range_1_high |-> SubSeq(line, b2, e2),
              range_2_low |-> SubSeq(line, b3, e3),
              range_2_high |-> SubSeq(line, b4, e4)]
        ELSE [matched |-> FALSE]

RECURSIVE FieldScan(_, _, _)
\* the digit runs of s from index k on, cur the run being read
FieldScan(s, k, cur) ==
    IF k > Len(s) THEN (IF cur = <<>> THEN <<>> ELSE <<cur>>)
    ELSE IF s[k] \in Digit THEN FieldScan(s, k + 1, Append(cur, s[k]))
    ELSE (IF cur = <<>> THEN <<>> ELSE <<cur>>) \o FieldScan(s, k + 1, <<>>)

\* FIELD_REGEX.captures_iter(line): the "value" group of every match, which
\* are the maximal digit runs of the line, left to right
FIELD_REGEX(line) == FieldScan(line, 1, <<>>)

(***************************************************************************)
(* Rules and the parsers.  A range lo..=hi is the pair <<lo, hi>>.         *)
(***************************************************************************)
Rule_new(name, range1, range2) ==
    [name |-> name, range1 |-> range1, range2 |-> range2]

\* RangeInclusive::contains
contains(range, field) == range[1] <= field /\ field <= range[2]

\* Rule::valid with range2 forgotten
valid_range1_only(rule, field) == contains(rule.range1, field)

\* Rule::valid
valid(rule, field) == contains(rule.range1, field) \/ contains(rule.range2, field)

RECURSIVE read_rules_peek(_, _)
\* read_rules that looks at the next line and takes it only when it matches
read_rules_peek(ls, acc) ==
    IF ls = <<>> THEN [panicked |-> FALSE, rules |-> acc, lines |-> <<>>]
    ELSE LET rule_caps == RULE_REGEX(Head(ls))
         IN  IF rule_caps.matched
             THEN IF /\ ParseOk(rule_caps.range_1_low)
                     /\ ParseOk(rule_caps.range_1_high)
                     /\ ParseOk(rule_caps.range_2_low)
                     /\ ParseOk(rule_caps.range_2_high)
                  THEN read_rules_peek(Tail(ls),
                           Append(acc, Rule_new(rule_caps.name,
                               <<ParseI64(rule_caps.range_1_low),
                                 ParseI64(rule_caps.range_1_high)>>,
                               <<ParseI64(rule_caps.range_2_low),
                                 ParseI64(rule_caps.range_2_high)>>)))
                  ELSE [panicked |-> TRUE, rules |-> <<>>, lines |-> Tail(ls)]
             ELSE [panicked |-> FALSE, rules |-> acc, lines |-> ls]

RECURSIVE read_rules_lenient(_, _)
\* read_rules that ends the section at a number that does not parse
read_rules_lenient(ls, acc) ==
    IF ls = <<>> THEN [panicked |-> FALSE, rules |-> acc, lines |-> <<>>]
    ELSE LET rule_caps == RULE_REGEX(Head(ls))
         IN  IF /\ rule_caps.matched
                /\ ParseOk(rule_caps.range_1_low)
                /\ ParseOk(rule_caps.range_1_high)
                /\ ParseOk(rule_caps.range_2_low)
                /\ ParseOk(rule_caps.range_2_high)
             THEN read_rules_lenient(Tail(ls),
                      Append(acc, Rule_new(rule_caps.name,
                          <<ParseI64(rule_caps.range_1_low),
                            ParseI64(rule_caps.range_1_high)>>,
                          <<ParseI64(rule_caps.range_2_low),
                            ParseI64(rule_caps.range_2_high)>>)))
             ELSE [panicked |-> FALSE, rules |-> acc, lines |-> Tail(ls)]

RECURSIVE read_rules(_, _)
\* read_rules on the iterator ls with the rules pushed so far: the rules it
\* returns and the lines it leaves, or a panic of an unwrap().  The for loop
\* takes a line from the iterator before the pattern is tried on it.
read_rules(ls, acc) ==
    IF ls = <<>> THEN [panicked |-> FALSE, rules |-> acc, lines |-> <<>>]
    ELSE LET rule_caps == RULE_REGEX(Head(ls))
         IN  IF rule_caps.matched
             THEN IF /\ ParseOk(rule_caps.range_1_low)
                     /\ ParseOk(rule_caps.range_1_high)
                     /\ ParseOk(rule_caps.range_2_low)
                     /\ ParseOk(rule_caps.range_2_high)
                  THEN read_rules(Tail(ls),
                           Append(acc, Rule_new(rule_caps.name,
                               <<ParseI64(rule_caps.range_1_low),
                                 ParseI64(rule_caps.range_1_high)>>,
                               <<ParseI64(rule_caps.range_2_low),
                                 ParseI64(rule_caps.range_2_high)>>)))
                  ELSE [panicked |-> TRUE, rules |-> <<>>, lines |-> Tail(ls)]
             ELSE [panicked |-> FALSE, rules |-> acc, lines |-> Tail(ls)]

RECURSIVE read_passports_loop(_, _)
read_passports_loop(ls, acc) ==
    IF ls = <<>> THEN [panicked |-> FALSE, passports |-> acc, lines |-> <<>>]
    ELSE LET caps == FIELD_REGEX(Head(ls))
         IN  IF caps # <<>>
             THEN IF \A k \in 1..Len(caps) : ParseOk(caps[k])
                  THEN read_passports_loop(Tail(ls),
                           Append(acc, [k \in 1..Len(caps) |-> ParseI64(caps[k])]))
                  ELSE [panicked |-> TRUE, passports |-> <<>>, lines |-> Tail(ls)]
             ELSE [panicked |-> FALSE, passports |-> acc, lines |-> Tail(ls)]

\* read_passports without the lines.next() that drops the header
read_passports_no_header(ls) == read_passports_loop(ls, <<>>)

\* read_passports: lines.next() drops one line unseen, then the loop
read_passports(ls) ==
    read_passports_loop(IF ls = <<>> THEN <<>> ELSE Tail(ls), <<>>)

(***************************************************************************)
(* The validity filter.                                                    *)
(***************************************************************************)
no_rule_valid(field, rs) == \A k \in 1..Len(rs) : ~valid(rs[k], field)

RECURSIVE find_invalid_fields(_, _)
\* passport.iter().filter(..).collect(): the fields no rule accepts, in order
find_invalid_fields(passport, rs) ==
    IF passport = <<>> THEN <<>>
    ELSE (IF no_rule_valid(Head(passport), rs) THEN <<Head(passport)>> ELSE <<>>)
             \o find_invalid_fields(Tail(passport), rs)

RECURSIVE find_all_invalid_fields(_, _)
find_all_invalid_fields(passports, rs) ==
    IF passports = <<>> THEN <<>>
    ELSE LET invalid == find_invalid_fields(Head(passports), rs)
         IN  (IF invalid # <<>> THEN invalid ELSE <<>>)
                 \o find_all_invalid_fields(Tail(passports), rs)

\* a record passes as soon as one of its fields is valid
has_a_valid_field(passport, rs) ==
    Len(find_invalid_fields(passport, rs)) < Len(passport)

has_no_invalid_fields(passport, rs) == find_invalid_fields(passport, rs) = <<>>

RECURSIVE filter_invalid(_, _)
\* passports.into_iter().filter(..).collect()
filter_invalid(passports, rs) ==
    IF passports = <<>> THEN <<>>
    ELSE (IF has_no_invalid_fields(Head(passports), rs)
          THEN <<Head(passports)>> ELSE <<>>)
             \o filter_invalid(Tail(passports), rs)

RECURSIVE sum(_)
sum(s) == IF s = <<>> THEN 0 ELSE Head(s) + sum(Tail(s))

(***************************************************************************)
(* The position solver.  Positions are 0-based as in the source; a pair    *)
(* (position, name) is <<position, name>>.                                 *)
(***************************************************************************)
RECURSIVE is_valid_in_position_any(_, _, _)
\* Iterator::any in the place of Iterator::all
is_valid_in_position_any(rule, position, passports) ==
    IF passports = <<>> THEN "false"
    ELSE IF position >= Len(Head(passports)) THEN "panic"
    ELSE IF valid(rule, Head(passports)[position + 1]) THEN "true"
    ELSE is_valid_in_position_any(rule, position, Tail(passports))

RECURSIVE is_valid_in_position(_, _, _)
\* Iterator::all stops at the first record that fails; passport[position]
\* panics on a record that has no such position
is_valid_in_position(rule, position, passports) ==
    IF passports = <<>> THEN "true"
    ELSE IF position >= Len(Head(passports)) THEN "panic"
    ELSE IF ~valid(rule, Head(passports)[position + 1]) THEN "false"
    ELSE is_valid_in_position(rule, position, Tail(passports))

RECURSIVE rule_positions_short(_, _, _, _)
\* the inner loop one position short of rules.len()
rule_positions_short(rule, position, n, passports) ==
    IF position >= n - 1 THEN <<>>
    ELSE (IF is_valid_in_position(rule, position, passports) = "true"
          THEN <<<<position, rule.name>>>> ELSE <<>>)
             \o rule_positions_short(rule, position + 1, n, passports)

RECURSIVE rule_positions(_, _, _, _)
\* the inner loop of find_all_valid_positions from position on
rule_positions(rule, position, n, passports) ==
    IF position >= n THEN <<>>
    ELSE (IF is_valid_in_position(rule, position, passports) = "true"
          THEN <<<<position, rule.name>>>> ELSE <<>>)
             \o rule_positions(rule, position + 1, n, passports)

find_all_valid_positions(rs, passports) ==
    IF \E k \in 1..Len(rs) : \E position \in 0..(Len(rs) - 1) :
           is_valid_in_position(rs[k], position, passports) = "panic"
    THEN [panicked |-> TRUE, positions |-> <<>>]
    ELSE [panicked |-> FALSE,
          positions |-> [k \in 1..Len(rs) |->
                            rule_positions(rs[k], 0, Len(rs), passports)]]

\* sort_unstable_by(len): any arrangement in ascending length
sorted_by_len(lists) ==
    LET n == Len(lists)
        perms == {f \in [1..n -> 1..n] : \A a, b \in 1..n : a # b => f[a] # f[b]}
    IN  {[k \in 1..n |-> lists[f[k]]] :
            f \in {g \in perms :
                     \A k \in 1..(n - 1) : Len(lists[g[k]]) <= Len(lists[g[k + 1]])}}

\* the inner loop without the taken test
first_free_unchecked(positions, tk) ==
    IF positions = <<>> THEN <<>> ELSE <<Head(positions)>>

RECURSIVE first_free_last(_, _)
\* the inner loop keeping the last free pair in the place of the first
first_free_last(positions, tk) ==
    IF positions = <<>> THEN <<>>
    ELSE LET later == first_free_last(Tail(positions), tk)
         IN  IF later # <<>> THEN later
             ELSE IF Head(positions)[1] \notin tk THEN <<Head(positions)>>
             ELSE <<>>

RECURSIVE first_free(_, _)
\* the inner loop of determine_field_positions: the first pair whose
\* position is not taken, as a list of at most one pair
first_free(positions, tk) ==
    IF positions = <<>> THEN <<>>
    ELSE IF Head(positions)[1] \notin tk THEN <<Head(positions)>>
    ELSE first_free(Tail(positions), tk)

DEPARTURE == <<"d", "e", "p", "a", "r", "t", "u", "r", "e">>

starts_with(name, prefix) ==
    Len(name) >= Len(prefix) /\ SubSeq(name, 1, Len(prefix)) = prefix

RECURSIVE departures(_)
\* the pairs whose name starts with "departure", in order
departures(pairs) ==
    IF pairs = <<>> THEN <<>>
    ELSE (IF starts_with(Head(pairs)[2], DEPARTURE) THEN <<Head(pairs)>> ELSE <<>>)
             \o departures(Tail(pairs))

RECURSIVE product(_, _)
\* the product of passport[field] over the pairs
product(pairs, passport) ==
    IF pairs = <<>> THEN 1
    ELSE passport[Head(pairs)[1] + 1] * product(Tail(pairs), passport)

(***************************************************************************)
(* main, one action per statement; determine_field_positions one action    *)
(* per iteration of its outer loop.                                        *)
(***************************************************************************)
Abort(reason) == pc' = "abort" /\ panic' = reason

\* let rules = read_rules(&mut lines);
ReadRules ==
    /\ pc = "read_rules"
    /\ LET r == read_rules(lines, <<>>)
       IN  /\ lines' = r.lines
           /\ IF r.panicked
              THEN Abort("read_rules: parse") /\ UNCHANGED rules
              ELSE pc' = "read_my_passport" /\ rules' = r.rules /\ UNCHANGED panic
    /\ UNCHANGED <<input, my_passport, near_passports, invalid_fields, answer_1,
                   valid_passports, valid_positions, all_positions, i, taken,
                   determined_positions, part_2>>

\* let my_passport = read_passports(&mut lines).first().unwrap().clone();
ReadMyPassport ==
    /\ pc = "read_my_passport"
    /\ LET r == read_passports(lines)
       IN  /\ lines' = r.lines
           /\ IF r.panicked
              THEN Abort("read_passports: parse") /\ UNCHANGED my_passport
              ELSE IF r.passports = <<>>
              THEN Abort("first: unwrap on None") /\ UNCHANGED my_passport
              ELSE /\ pc' = "read_near_passports"
                   /\ my_passport' = r.passports[1]
                   /\ UNCHANGED panic
    /\ UNCHANGED <<input, rules, near_passports, invalid_fields, answer_1,
                   valid_passports, valid_positions, all_positions, i, taken,
                   determined_positions, part_2>>

\* let near_passports = read_passports(&mut lines);
ReadNearPassports ==
    /\ pc = "read_near_passports"
    /\ LET r == read_passports(lines)
       IN  /\ lines' = r.lines
           /\ IF r.panicked
              THEN Abort("read_passports: parse") /\ UNCHANGED near_passports
              ELSE /\ pc' = "find_all_invalid_fields"
                   /\ near_passports' = r.passports
                   /\ UNCHANGED panic
    /\ UNCHANGED <<input, rules, my_passport, invalid_fields, answer_1,
                   valid_passports, valid_positions, all_positions, i, taken,
                   determined_positions, part_2>>

\* let invalid_fields = find_all_invalid_fields(..); println!("answer 1 is {}", sum)
FindAllInvalidFields ==
    /\ pc = "find_all_invalid_fields"
    /\ invalid_fields' = find_all_invalid_fields(near_passports, rules)
    /\ answer_1' = sum(invalid_fields')
    /\ pc' = "filter_invalid"
    /\ UNCHANGED <<input, lines, panic, rules, my_passport, near_passports,
                   valid_passports, valid_positions, all_positions, i, taken,
                   determined_positions, part_2>>

\* let valid_passports = filter_invalid(near_passports, &rules);
FilterInvalid ==
    /\ pc = "filter_invalid"
    /\ valid_passports' = filter_invalid(near_passports, rules)
    /\ pc' = "find_all_valid_positions"
    /\ UNCHANGED <<input, lines, panic, rules, my_passport, near_passports,
                   invalid_fields, answer_1, valid_positions, all_positions, i,
                   taken, determined_positions, part_2>>

\* let valid_positions = find_all_valid_positions(&rules, &valid_passports);
FindAllValidPositions ==
    /\ pc = "find_all_valid_positions"
    /\ LET r == find_all_valid_positions(rules, valid_passports)
       IN  IF r.panicked
           THEN Abort("find_all_valid_positions: index out of bounds")
                /\ UNCHANGED valid_positions
           ELSE /\ pc' = "determine_sort"
                /\ valid_positions' = r.positions
                /\ UNCHANGED panic
    /\ UNCHANGED <<input, lines, rules, my_passport, near_passports,
                   invalid_fields, answer_1, valid_passports, all_positions, i,
                   taken, determined_positions, part_2>>

\* determine_field_positions: all_positions.sort_unstable_by(..)
DetermineSort ==
    /\ pc = "determine_sort"
    /\ all_positions' \in sorted_by_len(valid_positions)
    /\ i' = 0
    /\ taken' = {}
    /\ determined_positions' = <<>>
    /\ pc' = "determine_loop"
    /\ UNCHANGED <<input, lines, panic, rules, my_passport, near_passports,
                   invalid_fields, answer_1, valid_passports, valid_positions,
                   part_2>>

\* determine_field_positions: one iteration of the outer for loop
DetermineStep ==
    /\ pc = "determine_loop"
    /\ i < Len(all_positions)
    /\ LET positions == all_positions[i + 1]
           free == first_free(positions, taken)
       IN  IF Len(positions) # i + 1
           THEN /\ Abort("too big!")
                /\ UNCHANGED <<i, taken, determined_positions>>
           ELSE /\ determined_positions' = determined_positions \o free
                /\ taken' = taken \cup {free[k][1] : k \in 1..Len(free)}
                /\ i' = i + 1
                /\ UNCHANGED <<pc, panic>>
    /\ UNCHANGED <<input, lines, rules, my_passport, near_passports,
                   invalid_fields, answer_1, valid_passports, valid_positions,
                   all_positions, part_2>>

\* determine_field_positions returns determined_positions
DetermineReturn ==
    /\ pc = "determine_loop"
    /\ i = Len(all_positions)
    /\ pc' = "part_2"
    /\ UNCHANGED <<input, lines, panic, rules, my_passport, near_passports,
                   invalid_fields, answer_1, valid_passports, valid_positions,
                   all_positions, i, taken, determined_positions, part_2>>

\* let part_2 = determined_positions.iter().filter(..).map(..).product();
Part2 ==
    /\ pc = "part_2"
    /\ LET fields == departures(determined_positions)
       IN  IF \E k \in 1..Len(fields) : fields[k][1] >= Len(my_passport)
           THEN Abort("part_2: index out of bounds") /\ UNCHANGED part_2
           ELSE /\ part_2' = product(fields, my_passport)
                /\ pc' = "done"
                /\ UNCHANGED panic
    /\ UNCHANGED <<input, lines, rules, my_passport, near_passports,
                   invalid_fields, answer_1, valid_passports, valid_positions,
                   all_positions, i, taken, determined_positions>>

Solve ==
    \/ FindAllInvalidFields
    \/ FilterInvalid
    \/ FindAllValidPositions
    \/ DetermineSort
    \/ DetermineStep
    \/ DetermineReturn
    \/ Part2

Next ==
    \/ ReadRules
    \/ ReadMyPassport
    \/ ReadNearPassports
    \/ FindAllInvalidFields
    \/ FilterInvalid
    \/ FindAllValidPositions
    \/ DetermineSort
    \/ DetermineStep
    \/ DetermineReturn
    \/ Part2

(***************************************************************************)
(* Inputs.                                                                 *)
(***************************************************************************)
RECURSIVE FmtInt(_)
\* the decimal digits of n >= 0
FmtInt(n) ==
    IF n < 10 THEN <<Digits[n + 1]>>
    ELSE Append(FmtInt(n \div 10), Digits[(n % 10) + 1])

\* a line of the shape <name>: <a>-<b> or <c>-<d>
RuleLine(name, a, b, c, d) ==
    name \o <<":", " ">> \o a \o <<"-">> \o b \o <<" ", "o", "r", " ">>
         \o c \o <<"-">> \o d

RECURSIVE RecordLine(_)
\* the values, comma-separated
RecordLine(vals) ==
    IF Len(vals) = 1 THEN FmtInt(vals[1])
    ELSE FmtInt(Head(vals)) \o <<",">> \o RecordLine(Tail(vals))

BlankLine == <<>>

YourTicket == <<"y", "o", "u", "r", " ", "t", "i", "c", "k", "e", "t", ":">>

NearbyTickets == <<"n", "e", "a", "r", "b", "y", " ", "t", "i", "c", "k", "e",
                   "t", "s", ":">>

\* i64::MAX + 1
TooBig == <<"9", "2", "2", "3", "3", "7", "2", "0", "3", "6", "8", "5", "4",
            "7", "7", "5", "8", "0", "8">>

GoodRuleLines ==
    {RuleLine(DEPARTURE, FmtInt(0), FmtInt(1), FmtInt(3), FmtInt(3)),
     RuleLine(<<"r", "o", "w">>, FmtInt(1), FmtInt(2), FmtInt(10), FmtInt(12))}

\* shaped like a rule, with a range component that is no number
NonNumericRuleLine ==
    RuleLine(<<"s", "e", "a", "t">>, <<"x">>, FmtInt(2), FmtInt(3), FmtInt(3))

\* matches the rule pattern, with a number no i64 holds
OverflowRuleLine ==
    RuleLine(<<"s", "e", "a", "t">>, FmtInt(0), FmtInt(1), TooBig, FmtInt(3))

RuleLinePool == GoodRuleLines \cup {NonNumericRuleLine, OverflowRuleLine}

RecordLinePool ==
    {RecordLine(<<1, 3>>), RecordLine(<<10, 2>>), RecordLine(<<5, 0>>),
     RecordLine(<<1>>), RecordLine(<<0, 3>>) \o <<",">>}

PersonalLinePool == {RecordLine(<<1, 3>>), RecordLine(<<2>>)}

SeqsUpTo(S, n) == UNION {[1..k -> S] : k \in 0..n}

Separators == {<<>>, <<BlankLine>>}

\* the texts: a rule section, a header, at most one personal record, a
\* header and the candidate records, each section ended by a blank line or
\* not
Inputs ==
    {rs \o s1 \o <<YourTicket>> \o my \o s2 \o <<NearbyTickets>> \o near :
        rs \in SeqsUpTo(RuleLinePool, MaxRuleLines),
        s1 \in Separators,
        my \in SeqsUpTo(PersonalLinePool, 1),
        s2 \in Separators,
        near \in SeqsUpTo(RecordLinePool, MaxNearLines)}

Init ==
    /\ input \in Inputs
    /\ lines = input
    /\ pc = "read_rules"
    /\ panic = ""
    /\ rules = <<>>
    /\ my_passport = <<>>
    /\ near_passports = <<>>
    /\ invalid_fields = <<>>
    /\ answer_1 = 0
    /\ valid_passports = <<>>
    /\ valid_positions = <<>>
    /\ all_positions = <<>>
    /\ i = 0
    /\ taken = {}
    /\ determined_positions = <<>>
    /\ part_2 = 0

Spec == Init /\ [][Next]_vars

\* the rules of a solver input: rule k is named by its index, accepts one
\* value a in range1 and the values above a from b on in range2 (none when
\* b = MaxVal + 1)
RuleName(k) == IF k = 1 THEN DEPARTURE ELSE <<"r", Digits[k + 1]>>

RulePool(k) ==
    {Rule_new(RuleName(k), <<ab[1], ab[1]>>, <<ab[2], MaxVal>>) :
        ab \in {x \in (0..MaxVal) \X (1..(MaxVal + 1)) : x[1] < x[2]}}

RuleSets ==
    UNION {{rs \in [1..n -> UNION {RulePool(k) : k \in 1..n}] :
               \A k \in 1..n : rs[k] \in RulePool(k)} : n \in 0..MaxRules}

InitSolve ==
    /\ input = <<>>
    /\ lines = <<>>
    /\ pc = "find_all_invalid_fields"
    /\ panic = ""
    /\ rules \in RuleSets
    /\ my_passport = [k \in 1..Len(rules) |-> k + 1]
    /\ near_passports \in SeqsUpTo([1..Len(rules) -> 0..MaxVal], MaxNear)
    /\ invalid_fields = <<>>
    /\ answer_1 = 0
    /\ valid_passports = <<>>
    /\ valid_positions = <<>>
    /\ all_positions = <<>>
    /\ i = 0
    /\ taken = {}
    /\ determined_positions = <<>>
    /\ part_2 = 0

SpecSolve == InitSolve /\ [][Solve]_vars

(***************************************************************************)
(* Helpers of the properties, written from the statements, not from the    *)
(* operators above.                                                        *)
(***************************************************************************)
InRange(v, range) == range[1] <= v /\ v <= range[2]

\* v lies in range1 or range2 of rule r
Satisfies(v, r) == InRange(v, r.range1) \/ InRange(v, r.range2)

\* no rule of rs has v in range1 or in range2
FailsEveryRule(v, rs) ==
    \A k \in 1..Len(rs) : ~InRange(v, rs[k].range1) /\ ~InRange(v, rs[k].range2)

RECURSIVE Flatten(_)
Flatten(ss) == IF ss = <<>> THEN <<>> ELSE Head(ss) \o Flatten(Tail(ss))

RECURSIVE SumFromRight(_)
SumFromRight(s) ==
    IF s = <<>> THEN 0 ELSE SumFromRight(SubSeq(s, 1, Len(s) - 1)) + s[Len(s)]

Remove(s, k) == SubSeq(s, 1, k - 1) \o SubSeq(s, k + 1, Len(s))

PositionsOf(list) == {list[k][1] : k \in 1..Len(list)}

AfterSolverStep(steps) == pc \notin ({"read_rules", "read_my_passport",
                                      "read_near_passports"} \cup steps)

(***************************************************************************)
(* C3: find_invalid_fields returns, in the record's order, exactly the     *)
(* values that lie in neither range of every rule;                         *)
(* find_all_invalid_fields is the concatenation of these over the batch in *)
(* batch order, and answer 1 is the sum of that concatenation.             *)
(***************************************************************************)
C3_InvalidFields ==
    (AfterSolverStep({"find_all_invalid_fields"}) /\ panic = "") =>
        /\ invalid_fields =
               SelectSeq(Flatten(near_passports), LAMBDA v : FailsEveryRule(v, rules))
        /\ answer_1 = SumFromRight(invalid_fields)

\* two records leave invalid values, out of numeric order, and one record
\* holds a valid and an invalid value
C3_Witness ==
    /\ pc = "filter_invalid"
    /\ Len(near_passports) = 2
    /\ Len(invalid_fields) = 2
    /\ invalid_fields[1] > invalid_fields[2]
    /\ \A n \in 1..2 :
           /\ \E k \in 1..Len(near_passports[n]) :
                  near_passports[n][k] = invalid_fields[n]
           /\ \E k \in 1..Len(near_passports[n]) :
                  ~FailsEveryRule(near_passports[n][k], rules)

(***************************************************************************)
(* C4: filter_invalid returns exactly the input records for which          *)
(* find_invalid_fields is empty, in input order and unchanged; so the      *)
(* output has at most as many records as the input and every retained      *)
(* record has zero invalid fields.                                         *)
(***************************************************************************)
C4_FilterInvalid ==
    (AfterSolverStep({"find_all_invalid_fields", "filter_invalid"}) /\ panic = "") =>
        /\ valid_passports =
               SelectSeq(near_passports,
                         LAMBDA p : \A k \in 1..Len(p) : ~FailsEveryRule(p[k], rules))
        /\ Len(valid_passports) <= Len(near_passports)
        /\ \A n \in 1..Len(valid_passports) :
               \A k \in 1..Len(valid_passports[n]) :
                   \E r \in 1..Len(rules) : Satisfies(valid_passports[n][k], rules[r])

\* the second of two records is kept and the first is dropped
C4_Witness ==
    /\ pc = "find_all_valid_positions"
    /\ Len(near_passports) = 2
    /\ Len(rules) = 3
    /\ valid_passports = <<near_passports[2]>>
    /\ near_passports[1] # near_passports[2]

(***************************************************************************)
(* C5: find_all_valid_positions returns one candidate list per rule in     *)
(* declaration order; the list of rule R holds, in ascending position      *)
(* order and tagged with R's name, exactly the positions p in 0..N-1 such  *)
(* that every record's value at p satisfies R.                             *)
(***************************************************************************)
C5_ValidPositions ==
    (AfterSolverStep({"find_all_invalid_fields", "filter_invalid",
                      "find_all_valid_positions"})
         /\ panic # "find_all_valid_positions: index out of bounds") =>
        LET N == Len(rules)
        IN  /\ Len(valid_positions) = N
            /\ \A r \in 1..N :
                   LET list == valid_positions[r]
                   IN  /\ PositionsOf(list) =
                              {p \in 0..(N - 1) :
                                  \A n \in 1..Len(valid_passports) :
                                      Satisfies(valid_passports[n][p + 1], rules[r])}
                       /\ \A k \in 1..Len(list) : list[k][2] = rules[r].name
                       /\ \A k \in 1..(Len(list) - 1) : list[k][1] < list[k + 1][1]

\* two valid records, three rules, and lists of one, two and three positions
C5_Witness ==
    /\ pc = "determine_sort"
    /\ Len(valid_passports) = 2
    /\ Len(rules) = 3
    /\ {Len(valid_positions[r]) : r \in 1..3} = {1, 2, 3}
    /\ Len(valid_positions[1]) = 2
    /\ valid_positions[1][1][1] = 1

(***************************************************************************)
(* C10: removing one record from the batch never removes a position from   *)
(* any rule's candidate list computed by find_all_valid_positions.         *)
(***************************************************************************)
C10_Monotonic ==
    (pc = "determine_sort") =>
        /\ \A k \in 1..Len(valid_passports) :
               LET fewer == find_all_valid_positions(rules, Remove(valid_passports, k))
               IN  /\ ~fewer.panicked
                   /\ \A r \in 1..Len(rules) :
                          PositionsOf(valid_positions[r])
                              \subseteq PositionsOf(fewer.positions[r])
        /\ \A k \in 1..Len(near_passports) :
               LET whole == find_all_valid_positions(rules, near_passports)
                   fewer == find_all_valid_positions(rules, Remove(near_passports, k))
               IN  \A r \in 1..Len(rules) :
                       PositionsOf(whole.positions[r])
                           \subseteq PositionsOf(fewer.positions[r])

\* a batch of two valid records where dropping one of them adds a position
\* to a rule's list
C10_Witness ==
    /\ pc = "determine_sort"
    /\ Len(valid_passports) = 2
    /\ \E k \in 1..2 : \E r \in 1..Len(rules) :
           PositionsOf(valid_positions[r]) #
               PositionsOf(find_all_valid_positions(rules,
                               Remove(valid_passports, k)).positions[r])

(***************************************************************************)
(* C1: whenever determine_field_positions returns without aborting, its    *)
(* output has exactly N (position, name) pairs, every position in 0..N-1   *)
(* appears in exactly one pair, every rule is used in exactly one pair,    *)
(* and the pairs are emitted in ascending order of the rules' candidate    *)
(* counts.                                                                 *)
(***************************************************************************)
CandidateCount(name) ==
    LET r == CHOOSE k \in 1..Len(rules) : rules[k].name = name
    IN  Len(valid_positions[r])

C1_Bijection ==
    (pc \in {"part_2", "done"}) =>
        LET N == Len(rules)
            out == determined_positions
        IN  /\ Len(out) = N
            /\ \A p \in 0..(N - 1) :
                   Cardinality({k \in 1..Len(out) : out[k][1] = p}) = 1
            /\ \A r \in 1..N :
                   Cardinality({k \in 1..Len(out) : out[k][2] = rules[r].name}) = 1
            /\ \A k \in 1..(Len(out) - 1) :
                   CandidateCount(out[k][2]) <= CandidateCount(out[k + 1][2])

\* three rules resolved, the pairs neither in rule order nor in position order
C1_Witness ==
    /\ pc = "done"
    /\ Len(rules) = 3
    /\ Len(valid_passports) = 2
    /\ determined_positions[1] = <<1, rules[3].name>>
    /\ determined_positions[2] = <<2, rules[1].name>>
    /\ determined_positions[3] = <<0, rules[2].name>>

(***************************************************************************)
(* C2, as stated: at every iteration i of the sorted lists at which the    *)
(* length check passes, the current rule has exactly one candidate         *)
(* position that is not in the taken set.                                  *)
(***************************************************************************)
AtCheckedIteration ==
    /\ pc = "determine_loop"
    /\ i < Len(all_positions)
    /\ Len(all_positions[i + 1]) = i + 1

FreeCandidates == PositionsOf(all_positions[i + 1]) \ taken

C2_ExactlyOneFree ==
    AtCheckedIteration => Cardinality(FreeCandidates) = 1

(***************************************************************************)
(* C2, amended: at every iteration at which the length check passes, the   *)
(* current rule has at least one candidate position that is not in the     *)
(* taken set, exactly one when every taken position is among its           *)
(* candidates, and the iteration assigns the lowest free candidate to the  *)
(* rule and adds it to the taken set.                                      *)
(***************************************************************************)
Lowest(S) == CHOOSE p \in S : \A q \in S : p <= q

C2_LowestFree ==
    [][AtCheckedIteration =>
          /\ FreeCandidates # {}
          /\ (taken \subseteq PositionsOf(all_positions[i + 1])
                  => Cardinality(FreeCandidates) = 1)
          /\ determined_positions' =
                 Append(determined_positions,
                        <<Lowest(FreeCandidates), all_positions[i + 1][1][2]>>)
          /\ taken' = taken \cup {Lowest(FreeCandidates)}
          /\ i' = i + 1]_vars

\* the second iteration has run on a list of two positions that were both
\* free, and took the lower one
C2_Witness ==
    /\ pc = "determine_loop"
    /\ i = 2
    /\ Len(all_positions) = 3
    /\ PositionsOf(all_positions[1]) = {0}
    /\ PositionsOf(all_positions[2]) = {1, 2}
    /\ determined_positions[2][1] = 1
    /\ taken = {0, 1}

(***************************************************************************)
(* Helpers of the properties about the text.                               *)
(***************************************************************************)
\* the rule line that declares rule r
RuleText(r) ==
    RuleLine(r.name, FmtInt(r.range1[1]), FmtInt(r.range1[2]),
             FmtInt(r.range2[1]), FmtInt(r.range2[2]))

\* line holds the integers of record rec, comma-separated, with or without
\* a comma after the last
IsRecordLine(line, rec) ==
    rec # <<>> /\ (line = RecordLine(rec) \/ line = RecordLine(rec) \o <<",">>)

IntegerLines == RecordLinePool \cup PersonalLinePool

ParsePanics == {"read_rules: parse", "read_passports: parse", "first: unwrap on None"}

ParsingOver == pc \notin {"read_rules", "read_my_passport", "read_near_passports"}

\* read_rules has just returned, and it returned at a line, the one after
\* the rules it parsed, not at the end of the text
ReturnedAtNonMatchingLine ==
    pc = "read_my_passport" /\ Len(rules) < Len(input)

\* the three parsing calls gave the nr rule lines from the top of the text,
\* the record of line my and the nn records of the lines after line hdr
Parsed(nr, my, hdr, nn) ==
    /\ Len(rules) = nr
    /\ \A j \in 1..nr : RuleText(rules[j]) = input[j]
    /\ IsRecordLine(input[my], my_passport)
    /\ Len(near_passports) = nn
    /\ \A j \in 1..nn : IsRecordLine(input[hdr + j], near_passports[j])

(***************************************************************************)
(* C6, as stated: after read_rules returns because it met a non-matching   *)
(* line, that line has not been consumed: it is the first line the next    *)
(* stage sees.                                                             *)
(***************************************************************************)
C6_LineLeft ==
    ReturnedAtNonMatchingLine =>
        lines = SubSeq(input, Len(rules) + 1, Len(input))

(***************************************************************************)
(* C6, amended: after read_rules returns because it met a non-matching     *)
(* line, that line has been consumed from the shared iterator: the first   *)
(* line the next stage sees is the line after it.                          *)
(***************************************************************************)
C6_LineConsumed ==
    ReturnedAtNonMatchingLine =>
        /\ ~RULE_REGEX(input[Len(rules) + 1]).matched
        /\ lines = SubSeq(input, Len(rules) + 2, Len(input))

\* two rules, then a blank line: read_passports is left at the header
C6_Witness ==
    /\ pc = "read_my_passport"
    /\ Len(rules) = 2
    /\ input[3] = BlankLine
    /\ Head(lines) = YourTicket

(***************************************************************************)
(* C7, as stated: when read_rules meets a line shaped like a rule whose    *)
(* range component is not numeric, the program aborts fatally; read_rules  *)
(* never returns the rules parsed before that line.                        *)
(***************************************************************************)
GoodRulesBefore(k) == \A j \in 1..(k - 1) : input[j] \in GoodRuleLines

C7_NonNumericAborts ==
    \A k \in 1..Len(input) :
        (input[k] = NonNumericRuleLine /\ GoodRulesBefore(k)) =>
            \/ pc = "read_rules"
            \/ pc = "abort" /\ panic = "read_rules: parse" /\ rules = <<>>

(***************************************************************************)
(* C7, amended: when read_rules meets a line that matches the rule pattern *)
(* with a number no 64-bit signed integer holds, the program aborts        *)
(* fatally and read_rules returns no rules; a line shaped like a rule      *)
(* whose range component is not numeric does not match the pattern and     *)
(* ends the rule section: read_rules returns the rules parsed before it.   *)
(***************************************************************************)
C7_Malformed ==
    \A k \in 1..Len(input) :
        (GoodRulesBefore(k) /\ pc # "read_rules") =>
            /\ input[k] = OverflowRuleLine =>
                   pc = "abort" /\ panic = "read_rules: parse" /\ rules = <<>>
            /\ input[k] = NonNumericRuleLine =>
                   /\ panic # "read_rules: parse"
                   /\ Len(rules) = k - 1
                   /\ \A j \in 1..(k - 1) : RuleText(rules[j]) = input[j]

\* a rule was parsed, then the line with the number that does not fit
C7_Witness ==
    /\ pc = "abort"
    /\ panic = "read_rules: parse"
    /\ Len(input) >= 2
    /\ input[1] \in GoodRuleLines
    /\ input[2] = OverflowRuleLine

(***************************************************************************)
(* C8, as stated: for every input made of exactly, in order, zero or more  *)
(* rule lines, a header line, one line of comma-separated integers, a      *)
(* header line and zero or more lines of comma-separated integers, the     *)
(* three parsing calls yield the rule lines, the single integer line of    *)
(* the first section and the integer lines of the last section.            *)
(***************************************************************************)
HeaderFormat(nr, nn) ==
    /\ Len(input) = nr + 3 + nn
    /\ \A j \in 1..nr : input[j] \in GoodRuleLines
    /\ input[nr + 1] = YourTicket
    /\ input[nr + 2] \in IntegerLines
    /\ input[nr + 3] = NearbyTickets
    /\ \A j \in 1..nn : input[nr + 3 + j] \in IntegerLines

C8_HeaderFormat ==
    \A nr \in 0..Len(input) : \A nn \in 0..Len(input) :
        HeaderFormat(nr, nn) =>
            /\ panic \notin ParsePanics
            /\ ParsingOver => Parsed(nr, nr + 2, nr + 3, nn)

(***************************************************************************)
(* C8, amended: for every input made of exactly, in order, zero or more    *)
(* rule lines, a blank line, a header line, one line of comma-separated    *)
(* integers, a blank line, a header line and zero or more lines of         *)
(* comma-separated integers, the three parsing calls yield the rule        *)
(* lines, the single integer line of the first section and the integer     *)
(* lines of the last section.                                              *)
(***************************************************************************)
BlankFormat(nr, nn) ==
    /\ Len(input) = nr + 5 + nn
    /\ \A j \in 1..nr : input[j] \in GoodRuleLines
    /\ input[nr + 1] = BlankLine
    /\ input[nr + 2] = YourTicket
    /\ input[nr + 3] \in IntegerLines
    /\ input[nr + 4] = BlankLine
    /\ input[nr + 5] = NearbyTickets
    /\ \A j \in 1..nn : input[nr + 5 + j] \in IntegerLines

C8_BlankFormat ==
    \A nr \in 0..Len(input) : \A nn \in 0..Len(input) :
        BlankFormat(nr, nn) =>
            /\ panic \notin ParsePanics
            /\ ParsingOver => Parsed(nr, nr + 3, nr + 5, nn)

\* two rules, the personal record and two candidate records were read
C8_Witness ==
    /\ pc = "find_all_invalid_fields"
    /\ BlankFormat(2, 2)
    /\ Len(rules) = 2
    /\ rules[1] # rules[2]
    /\ my_passport = <<1, 3>>
    /\ near_passports = <<<<10, 2>>, <<0, 3>>>>

(***************************************************************************)
(* C9: every record of a parsed batch (the records read_passports returns  *)
(* and those filter_invalid keeps) has the same length, the number of      *)
(* parsed rules, so find_all_valid_positions never reads a position        *)
(* outside a record.                                                       *)
(***************************************************************************)
C9_SameLength ==
    /\ (ParsingOver /\ panic \notin ParsePanics) =>
           /\ \A n \in 1..Len(near_passports) : Len(near_passports[n]) = Len(rules)
           /\ \A n \in 1..Len(valid_passports) : Len(valid_passports[n]) = Len(rules)
    /\ panic # "find_all_valid_positions: index out of bounds"

====
